---- MODULE Spec2Model ----
(***************************************************************************)
(* Model of CAnBioNet/network_calculations:                                *)
(*   reconstruction/util/ConfigParser.py   (schema based config parsing)   *)
(*   random_networks/synthesize_network_stats.py  (top node per network)   *)
(*                                                                         *)
(* Python values are modelled as records of one shape, so that values of   *)
(* different Python types can be compared:                                 *)
(*   [type : the Python type name, val : the scalar's text,                *)
(*    items : the <<key, value>> pairs of a dict, in insertion order, or   *)
(*            the <<"", value>> elements of a list]                       *)
(* A call's outcome is a record: status "ok" with the returned value, or   *)
(* the name of the exception raised with the constructor's arguments.      *)
(***************************************************************************)
EXTENDS Integers, Sequences, FiniteSets, TLC

VARIABLES
    configSpec,   \* the Config (schema) object the calls are made on
    jsonConfig,   \* the decoded input mapping handed to parse / parseConfig
    op,           \* the call made last (Spec), "" before any call
    result,       \* the outcome of the call made last
    pc,           \* parseConfigFile: the statement about to run
    document,     \* parseConfigFile: the content of the file at configFilePath
    handle,       \* parseConfigFile: state of configFile ("none","open","closed")
    held,         \* the mapping a caller holds from an earlier call, with the
                  \* object each value is (SpecAlias)
    first,        \* the outcome of the first call with the input (SpecAlias)
    networkStats, \* statistics script: the network of the current iteration
    flipPriority, \* statistics script: args.flipPriority
    synthesizedStats, \* statistics script: the list built by the loop
    rows          \* statistics script: the rows written to the CSV file

vars == <<configSpec, jsonConfig, op, result, pc, document, handle, held, first,
          networkStats, flipPriority, synthesizedStats, rows>>

(***************************************************************************)
(* Bounds of the model.                                                    *)
(***************************************************************************)
\* items of the root Config
MaxItems == 2
\* "key": value pairs of the outermost object of a document
MaxPairs == 2
\* elements a caller appends to a list it was handed
MaxAppends == 2
\* statistics script: networks in allStats, and nodes of one network
MaxNetworks == 2
MaxNodes == 2

(***************************************************************************)
(* Python values.                                                          *)
(***************************************************************************)
Scalar(t, v) == [type |-> t, val |-> v, items |-> <<>>]
IntV(v) == Scalar("int", v)
StrV(v) == Scalar("str", v)
NoneV == Scalar("NoneType", "None")
TrueV == Scalar("bool", "True")
DictV(pairs) == [type |-> "dict", val |-> "", items |-> pairs]
ListV(elems) == [type |-> "list", val |-> "", items |-> elems]

\* isinstance(value, t): bool is a subclass of int in Python
IsInstance(value, t) ==
    \/ value.type = t
    \/ value.type = "bool" /\ t = "int"

\* key in d
HasKey(d, k) == \E i \in 1..Len(d.items) : d.items[i][1] = k

\* d[k], for a key that is in d
Lookup(d, k) ==
    d.items[CHOOSE i \in 1..Len(d.items) : d.items[i][1] = k][2]

\* d[k] = v: an existing key keeps its place, a new key is added at the end
DictSet(d, k, v) ==
    IF HasKey(d, k)
    THEN DictV([i \in 1..Len(d.items) |->
                   IF d.items[i][1] = k THEN <<k, v>> ELSE d.items[i]])
    ELSE DictV(Append(d.items, <<k, v>>))

(***************************************************************************)
(* Outcomes of calls.                                                      *)
(***************************************************************************)
Ok(v) ==
    [status |-> "ok", value |-> v, key |-> "", expected |-> <<>>,
     actual |-> "", typeList |-> FALSE, calls |-> <<>>]

\* raise ExpectedValueError(key)
ExpectedValueError(k) ==
    [status |-> "ExpectedValueError", value |-> NoneV, key |-> k,
     expected |-> <<>>, actual |-> "", typeList |-> FALSE, calls |-> <<>>]

\* raise InvalidTypeError(key, expectedType, recievedType, typeList)
InvalidTypeError(k, expectedType, recievedType, tl) ==
    [status |-> "InvalidTypeError", value |-> NoneV, key |-> k,
     expected |-> expectedType, actual |-> recievedType, typeList |-> tl,
     calls |-> <<>>]

\* raise ValidationFailedError(...)
ValidationFailedError(k) ==
    [status |-> "ValidationFailedError", value |-> NoneV, key |-> k,
     expected |-> <<>>, actual |-> "", typeList |-> FALSE, calls |-> <<>>]

\* the validator calls made while r was computed, after those in log
WithCalls(r, log) == [r EXCEPT !.calls = log \o r.calls]

(***************************************************************************)
(* Schema objects.                                                         *)
(***************************************************************************)
NoDefault == [tag |-> "NoDefault", value |-> NoneV]
UseSubDefaults == [tag |-> "UseSubDefaults", value |-> NoneV]
Default(v) == [tag |-> "value", value |-> v]

\* Config(configItems, validator)
Config(configItems, validator) ==
    [configItems |-> configItems, validator |-> validator]

NoSubconfig == Config(<<>>, "None")

\* MultiTypeConfigItem(key, possibleTypes, default)
MultiTypeConfigItem(key, possibleTypes, default) ==
    [kind |-> "MultiTypeConfigItem", key |-> key,
     possibleTypes |-> possibleTypes, type_ |-> "", subconfig |-> NoSubconfig,
     default |-> default]

\* TypedConfigItem(key, expectedType, default): possibleTypes = [expectedType]
TypedConfigItem(key, expectedType, default) ==
    [kind |-> "TypedConfigItem", key |-> key,
     possibleTypes |-> <<expectedType>>, type_ |-> "",
     subconfig |-> NoSubconfig, default |-> default]

\* TypeOrSubconfigConfigItem(key, type_, subconfig, default)
TypeOrSubconfigConfigItem(key, type_, subconfig, default) ==
    [kind |-> "TypeOrSubconfigConfigItem", key |-> key, possibleTypes |-> <<>>,
     type_ |-> type_, subconfig |-> subconfig, default |-> default]

(***************************************************************************)
(* ConfigItem, its subclasses and Config.                                  *)
(***************************************************************************)
RECURSIVE Config_getDefault_from(_, _, _)
RECURSIVE Config_parse_from(_, _, _, _)

\* ConfigItem.getDefault without the NoDefault test of line 31
ConfigItem_getDefault_NoRaise(item) == Ok(item.default.value)

\* ConfigItem.getDefault
ConfigItem_getDefault(item) ==
    IF item.default.tag = "NoDefault"
    THEN ExpectedValueError(item.key)
    ELSE Ok(item.default.value)

\* TypeOrSubconfigConfigItem.getDefault falling back on the nested defaults
\* whenever no value was declared, NoDefault included
TypeOrSubconfig_getDefault_Always(item) ==
    IF item.default.tag # "value"
    THEN Config_getDefault_from(item.subconfig, 1, DictV(<<>>))
    ELSE ConfigItem_getDefault(item)

\* TypeOrSubconfigConfigItem.getDefault
TypeOrSubconfig_getDefault(item) ==
    IF item.default.tag = "UseSubDefaults"
    THEN Config_getDefault_from(item.subconfig, 1, DictV(<<>>))
    ELSE ConfigItem_getDefault(item)

\* item.getDefault(), dispatched on the item's class
Item_getDefault(item) ==
    IF item.kind = "TypeOrSubconfigConfigItem"
    THEN TypeOrSubconfig_getDefault(item)
    ELSE ConfigItem_getDefault(item)

\* Config.getDefault: the loop from item i on, defaults being the dict so far
Config_getDefault_from(config, i, defaults) ==
    IF i > Len(config.configItems)
    THEN Ok(defaults)
    ELSE LET item == config.configItems[i]
             r == Item_getDefault(item)
         IN  IF r.status # "ok"
             THEN r
             ELSE WithCalls(
                      Config_getDefault_from(config, i + 1,
                                             DictSet(defaults, item.key, r.value)),
                      r.calls)

Config_getDefault(config) == Config_getDefault_from(config, 1, DictV(<<>>))

\* MultiTypeConfigItem._parse (TypedConfigItem inherits it)
MultiType_parse(item, jsonValue) ==
    IF \E i \in 1..Len(item.possibleTypes) :
           IsInstance(jsonValue, item.possibleTypes[i])
    THEN Ok(jsonValue)
    ELSE InvalidTypeError(item.key, item.possibleTypes, jsonValue.type, TRUE)

\* the validator callable of a Config applied to a mapping.  The callables
\* are the caller's; three stand for them: one that rejects every mapping,
\* one that returns a transformed mapping, and one that returns its argument.
ApplyValidator(validator, config) ==
    CASE validator = "reject" -> ValidationFailedError("")
      [] validator = "mark"   -> Ok(DictSet(config, "checked", TrueV))
      [] OTHER                -> Ok(config)

\* Config.validate
Config_validate(configSpec_, config) ==
    IF configSpec_.validator # "None"
    THEN WithCalls(ApplyValidator(configSpec_.validator, config),
                   <<[validator |-> configSpec_.validator, arg |-> config]>>)
    ELSE Ok(config)

\* subconfig.parse(jsonValue) followed by subconfig.validate: what
\* TypeOrSubconfigConfigItem._parse would do if it went through parseConfig
Subconfig_parse_Validating(subconfig, jsonValue) ==
    LET r == Config_parse_from(subconfig, 1, jsonValue, DictV(<<>>))
    IN  IF r.status # "ok" THEN r
        ELSE WithCalls(Config_validate(subconfig, r.value), r.calls)

\* self.subconfig.parse(jsonValue), line 73
Subconfig_parse(subconfig, jsonValue) ==
    Config_parse_from(subconfig, 1, jsonValue, DictV(<<>>))

\* TypeOrSubconfigConfigItem._parse with the tests of lines 70 and 72 in the
\* other order
TypeOrSubconfig_parse_DictFirst(item, jsonValue) ==
    IF IsInstance(jsonValue, "dict")
    THEN Subconfig_parse(item.subconfig, jsonValue)
    ELSE IF IsInstance(jsonValue, item.type_)
    THEN Ok(jsonValue)
    ELSE InvalidTypeError(item.key, <<item.type_>>, jsonValue.type, FALSE)

\* TypeOrSubconfigConfigItem._parse
TypeOrSubconfig_parse(item, jsonValue) ==
    IF IsInstance(jsonValue, item.type_)
    THEN Ok(jsonValue)
    ELSE IF IsInstance(jsonValue, "dict")
    THEN Subconfig_parse(item.subconfig, jsonValue)
    ELSE InvalidTypeError(item.key, <<item.type_>>, jsonValue.type, FALSE)

\* item._parse(jsonValue), dispatched on the item's class
Item__parse(item, jsonValue) ==
    IF item.kind = "TypeOrSubconfigConfigItem"
    THEN TypeOrSubconfig_parse(item, jsonValue)
    ELSE MultiType_parse(item, jsonValue)

\* ConfigItem.parse calling ConfigItem.getDefault instead of the getDefault
\* of the item's class
ConfigItem_parse_SkipDefault(item, jsonConfig_) ==
    IF HasKey(jsonConfig_, item.key)
    THEN Item__parse(item, Lookup(jsonConfig_, item.key))
    ELSE ConfigItem_getDefault(item)

\* ConfigItem.parse
ConfigItem_parse(item, jsonConfig_) ==
    IF HasKey(jsonConfig_, item.key)
    THEN Item__parse(item, Lookup(jsonConfig_, item.key))
    ELSE Item_getDefault(item)

\* Config.parse: the loop from item i on, values being the dict so far
Config_parse_from(config, i, jsonConfig_, values) ==
    IF i > Len(config.configItems)
    THEN Ok(values)
    ELSE LET item == config.configItems[i]
             r == ConfigItem_parse(item, jsonConfig_)
         IN  IF r.status # "ok"
             THEN r
             ELSE WithCalls(
                      Config_parse_from(config, i + 1, jsonConfig_,
                                        DictSet(values, item.key, r.value)),
                      r.calls)

Config_parse(config, jsonConfig_) ==
    Config_parse_from(config, 1, jsonConfig_, DictV(<<>>))

\* parseConfig without line 115
parseConfig_NoValidate(configSpec_, jsonConfig_) ==
    Config_parse(configSpec_, jsonConfig_)

\* parseConfig
parseConfig(configSpec_, jsonConfig_) ==
    LET config == Config_parse(configSpec_, jsonConfig_)
    IN  IF config.status # "ok"
        THEN config
        ELSE WithCalls(Config_validate(configSpec_, config.value), config.calls)

(***************************************************************************)
(* The schemas and inputs the calls are checked on.  Item i of a Config    *)
(* has the key KeyNames[i], so the keys of one Config are distinct, as the *)
(* data model requires.                                                    *)
(***************************************************************************)
KeyNames == <<"a", "b", "c", "d">>

\* a nested Config all of whose defaults resolve; its validator rejects
SubconfigA == Config(<<TypedConfigItem("n", "int", Default(IntV("1")))>>, "reject")
\* a nested Config with a required item; its validator transforms
SubconfigB == Config(<<TypedConfigItem("n", "int", NoDefault)>>, "mark")

\* a nested Config whose item is itself a nested-schema item
SubconfigC ==
    Config(<<TypeOrSubconfigConfigItem("n", "str", SubconfigA, UseSubDefaults)>>,
           "None")

ItemTemplates(key) ==
    {TypedConfigItem(key, "int", NoDefault),
     MultiTypeConfigItem(key, <<"int", "str">>, Default(IntV("1"))),
     TypedConfigItem(key, "str", Default(NoneV)),
     TypeOrSubconfigConfigItem(key, "str", SubconfigA, Default(DictV(<<>>))),
     TypeOrSubconfigConfigItem(key, "dict", SubconfigA, NoDefault)}
    \cup {TypeOrSubconfigConfigItem(key, "str", sub, d) :
             sub \in {SubconfigA, SubconfigB}, d \in {NoDefault, UseSubDefaults}}
    \cup {TypeOrSubconfigConfigItem(key, "str", SubconfigA, Default(StrV("x"))),
          TypeOrSubconfigConfigItem(key, "str", SubconfigC, UseSubDefaults)}

ItemLists ==
    UNION {{items \in [1..n -> UNION {ItemTemplates(KeyNames[i]) : i \in 1..n}] :
               \A i \in 1..n : items[i] \in ItemTemplates(KeyNames[i])} :
           n \in 0..MaxItems}

Validators == {"None", "reject", "mark"}

Schemas == {Config(items, v) : items \in ItemLists, v \in Validators}

InputValues ==
    {IntV("1"), StrV("x"), DictV(<<>>),
     DictV(<< <<"n", IntV("1")>> >>), DictV(<< <<"n", DictV(<<>>)>> >>)}

Absent == Scalar("absent", "")

\* the dict with the given values at "a" and "b", Absent meaning no such key
InputOf(va, vb) ==
    DictV((IF va = Absent THEN <<>> ELSE << <<"a", va>> >>)
          \o (IF vb = Absent THEN <<>> ELSE << <<"b", vb>> >>))

Inputs ==
    {InputOf(va, vb) : va \in InputValues \cup {Absent},
                       vb \in InputValues \cup {Absent}}

NoCall == [name |-> "", item |-> 0]
NoResult == Ok(NoneV)
EmptyDict == DictV(<<>>)

(***************************************************************************)
(* Spec: one call on a schema, with an input.                              *)
(***************************************************************************)
RestIdle ==
    /\ pc = "idle"
    /\ document = NoneV
    /\ handle = "none"
    /\ held = <<>>
    /\ first = NoResult
    /\ networkStats = <<>>
    /\ flipPriority = FALSE
    /\ synthesizedStats = <<>>
    /\ rows = <<>>

Init ==
    /\ configSpec \in Schemas
    /\ jsonConfig \in Inputs
    /\ op = NoCall
    /\ result = NoResult
    /\ RestIdle

Called(name, i, r) ==
    /\ op = NoCall
    /\ op' = [name |-> name, item |-> i]
    /\ result' = r
    /\ UNCHANGED <<configSpec, jsonConfig, pc, document, handle, held, first,
                   networkStats, flipPriority, synthesizedStats, rows>>

\* configSpec.parse(jsonConfig)
DoParse ==
    /\ op = NoCall
    /\ Called("parse", 0, Config_parse(configSpec, jsonConfig))

\* configSpec.getDefault()
DoGetDefault ==
    /\ op = NoCall
    /\ Called("getDefault", 0, Config_getDefault(configSpec))

\* parseConfig(configSpec, jsonConfig)
DoParseConfig ==
    /\ op = NoCall
    /\ Called("parseConfig", 0, parseConfig(configSpec, jsonConfig))

\* configSpec.parse(configSpec.getDefault()), when getDefault() returns
DoParseDefault ==
    /\ Config_getDefault(configSpec).status = "ok"
    /\ Called("parseDefault", 0,
              Config_parse(configSpec, Config_getDefault(configSpec).value))

\* item._parse(jsonConfig[item.key]) for an item whose key is present
DoItemParse ==
    \E i \in 1..Len(configSpec.configItems) :
        /\ HasKey(jsonConfig, configSpec.configItems[i].key)
        /\ Called("_parse", i,
                  Item__parse(configSpec.configItems[i],
                              Lookup(jsonConfig, configSpec.configItems[i].key)))

Next ==
    \/ DoParse
    \/ DoGetDefault
    \/ DoParseConfig
    \/ DoParseDefault
    \/ DoItemParse

Spec == Init /\ [][Next]_vars

(***************************************************************************)
(* parseConfigFile.  The document is the JSON text of the file as a syntax *)
(* tree: an object is the sequence of its "key": value pairs as written,   *)
(* so that a key may occur twice.                                          *)
(***************************************************************************)
RECURSIVE DecodeFrom(_, _, _)

\* errorOnDuplicateKeys: the loop from pair i on, d being the dict so far
RECURSIVE errorOnDuplicateKeys_from(_, _, _)
errorOnDuplicateKeys_from(orderedPairs, i, d) ==
    IF i > Len(orderedPairs)
    THEN Ok(d)
    ELSE IF HasKey(d, orderedPairs[i][1])
    THEN ValidationFailedError(orderedPairs[i][1])
    ELSE errorOnDuplicateKeys_from(orderedPairs, i + 1,
             DictSet(d, orderedPairs[i][1], orderedPairs[i][2]))

\* dict(orderedPairs): a later pair replaces an earlier one of the same key
RECURSIVE LastWins_from(_, _, _)
LastWins_from(orderedPairs, i, d) ==
    IF i > Len(orderedPairs)
    THEN Ok(d)
    ELSE LastWins_from(orderedPairs, i + 1,
             DictSet(d, orderedPairs[i][1], orderedPairs[i][2]))

\* the hook without its check: dict(orderedPairs)
errorOnDuplicateKeys_LastWins(orderedPairs) ==
    LastWins_from(orderedPairs, 1, DictV(<<>>))

\* errorOnDuplicateKeys
errorOnDuplicateKeys(orderedPairs) ==
    errorOnDuplicateKeys_from(orderedPairs, 1, DictV(<<>>))

\* json.load(configFile, object_pairs_hook=errorOnDuplicateKeys) on a well
\* formed document: the decoder calls the hook with the decoded pairs of
\* every object as the object ends, so an inner object's call comes before
\* the call for the object that holds it
Decode(node) ==
    IF node.type \notin {"dict", "list"}
    THEN Ok(node)
    ELSE LET inner == DecodeFrom(node.items, 1, <<>>)
         IN  IF inner.status # "ok" THEN inner
             ELSE IF node.type = "list" THEN Ok(ListV(inner.value.items))
             ELSE errorOnDuplicateKeys(inner.value.items)

\* the values of the pairs decoded in the order written, from pair i on
DecodeFrom(pairs, i, done) ==
    IF i > Len(pairs)
    THEN Ok(ListV(done))
    ELSE LET r == Decode(pairs[i][2])
         IN  IF r.status # "ok" THEN r
             ELSE DecodeFrom(pairs, i + 1, Append(done, <<pairs[i][1], r.value>>))

\* raise json.JSONDecodeError, raise FileNotFoundError
JSONDecodeError == [ExpectedValueError("") EXCEPT !.status = "JSONDecodeError"]
FileNotFoundError == [ExpectedValueError("") EXCEPT !.status = "FileNotFoundError"]

\* a file that holds no well formed JSON text, and a path with no file
Malformed == Scalar("malformed", "")
Missing == Scalar("missing", "")

\* json.load(...) as called on line 120
json_load(doc) == IF doc = Malformed THEN JSONDecodeError ELSE Decode(doc)

DocInner ==
    {DictV(<< <<"n", IntV("1")>> >>),
     DictV(<< <<"n", IntV("1")>>, <<"n", StrV("x")>> >>)}

DocValues ==
    {IntV("1"), StrV("x")}
    \cup DocInner
    \cup {ListV(<< <<"", inner>> >>) : inner \in DocInner}
    \cup {DictV(<< <<"n", DictV(<< <<"n", IntV("1")>>, <<"n", IntV("1")>> >>)>> >>)}

DocPairs == {<<k, v>> : k \in {"a", "b"}, v \in DocValues}

Documents ==
    {DictV(pairs) : pairs \in UNION {[1..n -> DocPairs] : n \in 0..MaxPairs}}
    \cup {Malformed, Missing}

FileSchemas ==
    {Config(<<TypedConfigItem("a", "int", NoDefault),
              TypeOrSubconfigConfigItem("b", "str", SubconfigA, UseSubDefaults)>>, v) :
        v \in Validators}

InitFile ==
    /\ configSpec \in FileSchemas
    /\ document \in Documents
    /\ jsonConfig = NoneV
    /\ op = NoCall
    /\ result = NoResult
    /\ pc = "open"
    /\ handle = "none"
    /\ held = <<>>
    /\ first = NoResult
    /\ networkStats = <<>>
    /\ flipPriority = FALSE
    /\ synthesizedStats = <<>>
    /\ rows = <<>>

FileFrame ==
    UNCHANGED <<configSpec, document, held, first, networkStats, flipPriority,
                synthesizedStats, rows>>

\* line 119: configFile = open(configFilePath, "r")
OpenFile ==
    /\ pc = "open"
    /\ op' = [name |-> "open", item |-> 0]
    /\ IF document = Missing
       THEN pc' = "raised" /\ result' = FileNotFoundError /\ handle' = handle
       ELSE pc' = "load" /\ result' = result /\ handle' = "open"
    /\ UNCHANGED jsonConfig
    /\ FileFrame

\* line 120: jsonConfig = json.load(configFile, object_pairs_hook=...)
LoadFile ==
    /\ pc = "load"
    /\ op' = [name |-> "json.load", item |-> 0]
    /\ LET r == json_load(document)
       IN  IF r.status = "ok"
           THEN pc' = "close" /\ jsonConfig' = r.value /\ result' = result
           ELSE pc' = "raised" /\ jsonConfig' = jsonConfig /\ result' = r
    /\ UNCHANGED handle
    /\ FileFrame

\* line 121: configFile.close()
CloseFile ==
    /\ pc = "close"
    /\ op' = [name |-> "close", item |-> 0]
    /\ handle' = "closed"
    /\ pc' = "parseConfig"
    /\ UNCHANGED <<jsonConfig, result>>
    /\ FileFrame

\* line 123: return parseConfig(configSpec, jsonConfig)
ReturnParseConfig ==
    /\ pc = "parseConfig"
    /\ op' = [name |-> "parseConfig", item |-> 0]
    /\ result' = parseConfig(configSpec, jsonConfig)
    /\ pc' = IF result'.status = "ok" THEN "returned" ELSE "raised"
    /\ UNCHANGED <<jsonConfig, handle>>
    /\ FileFrame

NextFile ==
    \/ OpenFile
    \/ LoadFile
    \/ CloseFile
    \/ ReturnParseConfig

SpecFile == InitFile /\ [][NextFile]_vars

(***************************************************************************)
(* SpecAlias: a caller calls parse or getDefault, changes the mapping it   *)
(* was handed, and makes the same call again with an equal input.  Python  *)
(* hands objects over by reference, so besides its value every entry of    *)
(* the mapping the caller holds names the object the value is:             *)
(*   "default"  the item's self.default,                                   *)
(*   "input"    the object found in the input of the first call,           *)
(*   "fresh"    a dict created by the call.                                *)
(* A change made in place to an object shows wherever that object is held. *)
(***************************************************************************)
\* the object item.parse(jsonConfig) returns when it returns
ParsedObject(item, jsonConfig_) ==
    IF HasKey(jsonConfig_, item.key)
    THEN IF item.kind = "TypeOrSubconfigConfigItem"
            /\ ~IsInstance(Lookup(jsonConfig_, item.key), item.type_)
         THEN "fresh"      \* line 73: subconfig.parse builds values = {}
         ELSE "input"      \* lines 51, 71: return jsonValue
    ELSE IF item.kind = "TypeOrSubconfigConfigItem"
            /\ item.default.tag = "UseSubDefaults"
         THEN "fresh"      \* line 66: subconfig.getDefault builds defaults = {}
         ELSE "default"    \* line 33: return self.default

\* the mapping a successful Config.parse / Config.getDefault hands over: a
\* new dict (lines 82, 88) whose values are the objects the items returned
Handed(config, jsonConfig_, r) ==
    [i \in 1..Len(r.value.items) |->
        [key |-> r.value.items[i][1],
         value |-> r.value.items[i][2],
         obj |-> ParsedObject(
                     config.configItems[
                         CHOOSE j \in 1..Len(config.configItems) :
                             config.configItems[j].key = r.value.items[i][1]],
                     jsonConfig_)]]

\* the caller's change in place: list.append(1), dict["z"] = 1
ChangedInPlace(value) ==
    IF value.type = "list"
    THEN ListV(Append(value.items, <<"", IntV("1")>>))
    ELSE DictSet(value, "z", IntV("1"))

\* the schema after the default object of the item with the key has changed
WithDefault(config, key, value) ==
    Config([j \in 1..Len(config.configItems) |->
               IF config.configItems[j].key = key
               THEN [config.configItems[j] EXCEPT !.default = Default(value)]
               ELSE config.configItems[j]],
           config.validator)

AliasItemTemplates(key) ==
    {TypedConfigItem(key, "list", Default(ListV(<<>>))),
     TypedConfigItem(key, "int", Default(IntV("1"))),
     TypedConfigItem(key, "dict", NoDefault),
     TypeOrSubconfigConfigItem(key, "str", SubconfigA, Default(DictV(<<>>))),
     TypeOrSubconfigConfigItem(key, "str", SubconfigA, UseSubDefaults)}

AliasSchemas ==
    {Config(items, "None") :
        items \in UNION {{its \in [1..n -> UNION {AliasItemTemplates(KeyNames[i]) :
                                                     i \in 1..n}] :
                             \A i \in 1..n : its[i] \in AliasItemTemplates(KeyNames[i])} :
                         n \in 1..MaxItems}}

AliasInputValues == {Absent, ListV(<<>>), DictV(<<>>), StrV("x")}

AliasInputs == {InputOf(va, vb) : va \in AliasInputValues, vb \in AliasInputValues}

InitAlias ==
    /\ configSpec \in AliasSchemas
    /\ jsonConfig \in AliasInputs
    /\ op = NoCall
    /\ result = NoResult
    /\ pc = "idle"
    /\ held = <<>>
    /\ first = NoResult
    /\ document = NoneV
    /\ handle = "none"
    /\ networkStats = <<>>
    /\ flipPriority = FALSE
    /\ synthesizedStats = <<>>
    /\ rows = <<>>

AliasFrame ==
    UNCHANGED <<document, handle, networkStats, flipPriority, synthesizedStats,
                rows>>

\* the call named, on the schema as it is now
AliasCall(name) ==
    IF name = "getDefault"
    THEN Config_getDefault(configSpec)
    ELSE Config_parse(configSpec, jsonConfig)

\* the first call: configSpec.parse(jsonConfig) or configSpec.getDefault()
FirstCall ==
    /\ pc = "idle"
    /\ \E name \in {"parse", "getDefault"} :
           /\ op' = [name |-> name, item |-> 0]
           /\ result' = AliasCall(name)
           /\ first' = result'
           /\ IF result'.status = "ok"
              THEN /\ pc' = "held"
                   /\ held' = Handed(configSpec,
                                     IF name = "parse" THEN jsonConfig ELSE EmptyDict,
                                     result')
              ELSE pc' = "raised" /\ held' = held
    /\ UNCHANGED <<configSpec, jsonConfig>>
    /\ AliasFrame

\* the caller changes, in place, a list or dict it finds in the mapping
MutateValue ==
    /\ pc = "held"
    /\ \E i \in 1..Len(held) :
           /\ held[i].value.type \in {"list", "dict"}
           /\ Len(held[i].value.items) < MaxAppends
           /\ LET changed == ChangedInPlace(held[i].value)
              IN  /\ held' = [held EXCEPT ![i].value = changed]
                  /\ configSpec' = IF held[i].obj = "default"
                                   THEN WithDefault(configSpec, held[i].key, changed)
                                   ELSE configSpec
    /\ UNCHANGED <<jsonConfig, op, result, first, pc>>
    /\ AliasFrame

\* the caller binds a key of the mapping to another value: mapping[key] = 0
RebindKey ==
    /\ pc = "held"
    /\ \E i \in 1..Len(held) :
           /\ held[i].value # IntV("0")
           /\ held' = [held EXCEPT ![i].value = IntV("0"), ![i].obj = "fresh"]
    /\ UNCHANGED <<configSpec, jsonConfig, op, result, first, pc>>
    /\ AliasFrame

\* the same call again, with an input equal to the first call's
SecondCall ==
    /\ pc = "held"
    /\ result' = AliasCall(op.name)
    /\ pc' = "again"
    /\ UNCHANGED <<configSpec, jsonConfig, op, first, held>>
    /\ AliasFrame

NextAlias ==
    \/ FirstCall
    \/ MutateValue
    \/ RebindKey
    \/ SecondCall

SpecAlias == InitAlias /\ [][NextAlias]_vars

(***************************************************************************)
(* synthesize_network_stats.py.  A network is the sequence of the items of *)
(* its dict, in the dict's order: [node, degree, bibc].  A BiBC value is   *)
(* [kind, v]: kind "None" as unpickled, "NoBibc" once the loop replaced it,*)
(* "number" with the value v otherwise.  allStats is read from the pickle  *)
(* file; the model draws its networks one per iteration of the loop.       *)
(***************************************************************************)
NoneBibc == [kind |-> "None", v |-> 0]
NoBibc == [kind |-> "NoBibc", v |-> 0]
Bibc(v) == [kind |-> "number", v |-> v]

NodeNames == <<"A", "B", "C", "D">>

\* degrees, and BiBC values in tenths
Degrees == {1, 2}
BibcValues == {5, 9}

NodeStats == [degree : Degrees, bibc : {NoneBibc} \cup {Bibc(v) : v \in BibcValues}]

Networks ==
    UNION {{[i \in 1..n |-> [node |-> NodeNames[i], degree |-> st[i].degree,
                             bibc |-> st[i].bibc]] : st \in [1..n -> NodeStats]} :
           n \in 0..MaxNodes}

\* lines 43-45: every None becomes a NoBibc()
ReplaceNone(network) ==
    [i \in 1..Len(network) |->
        IF network[i].bibc = NoneBibc
        THEN [network[i] EXCEPT !.bibc = NoBibc]
        ELSE network[i]]

\* x < y as Python evaluates it for two values of one statistic.  NoBibc is
\* decorated with total_ordering and defines __le__ (always True) and __eq__
\* (isinstance(other, NoBibc)): NoBibc() < y is __le__ and not __eq__; for a
\* number x, x < NoBibc() falls back to NoBibc().__gt__(x), not __le__.
StatLt_NoBibcHighest(x, y) ==
    CASE x.kind = "NoBibc" -> FALSE
      [] y.kind = "NoBibc" -> TRUE
      [] OTHER -> x.v < y.v

StatLt(x, y) ==
    CASE x.kind = "NoBibc" -> TRUE /\ ~(y.kind = "NoBibc")
      [] y.kind = "NoBibc" -> ~TRUE
      [] OTHER -> x.v < y.v

\* nodeStats[1][stat] of the key functions of line 51
StatOf(entry, stat) ==
    IF stat = "degree" THEN Bibc(entry.degree) ELSE entry.bibc

\* sorted(entries, key=..., reverse=True): a stable sort, entries with equal
\* keys keeping the order they came in; built by inserting each entry, in
\* order, before the first entry with a smaller key
RECURSIVE InsertDesc(_, _, _)
InsertDesc(sortedEntries, entry, stat) ==
    IF sortedEntries = <<>>
    THEN <<entry>>
    ELSE IF StatLt(StatOf(Head(sortedEntries), stat), StatOf(entry, stat))
    THEN <<entry>> \o sortedEntries
    ELSE <<Head(sortedEntries)>> \o InsertDesc(Tail(sortedEntries), entry, stat)

RECURSIVE SortedDescFrom(_, _, _, _)
SortedDescFrom(entries, i, stat, done) ==
    IF i > Len(entries)
    THEN done
    ELSE SortedDescFrom(entries, i + 1, stat, InsertDesc(done, entries[i], stat))

SortedDesc(entries, stat) == SortedDescFrom(entries, 1, stat, <<>>)

\* lines 47-51: the inner sort is by stat2, the outer by stat1
SortedStats(network, flip) ==
    LET stat1 == IF flip THEN "degree" ELSE "bibc"
        stat2 == IF flip THEN "bibc" ELSE "degree"
    IN  SortedDesc(SortedDesc(network, stat2), stat1)

\* a cell of the CSV file
TextCell(t) == [kind |-> "text", text |-> t, number |-> 0]
NumberCell(n) == [kind |-> "number", text |-> "", number |-> n]

\* line 59
HeaderRow ==
    <<TextCell("Network Index"), TextCell("Node"), TextCell("Degree"),
      TextCell("BiBC")>>

\* lines 61-62: the row of the entry with the index given
CsvRow(index, entry) ==
    <<NumberCell(index), TextCell(entry.node), NumberCell(entry.degree),
      IF entry.bibc.kind = "NoBibc" THEN TextCell("N/A")
      ELSE NumberCell(entry.bibc.v)>>

InitStats ==
    /\ flipPriority \in BOOLEAN
    /\ networkStats = <<>>
    /\ synthesizedStats = <<>>
    /\ rows = <<>>
    /\ pc = "loop"
    /\ configSpec = NoSubconfig
    /\ jsonConfig = NoneV
    /\ op = NoCall
    /\ result = NoResult
    /\ document = NoneV
    /\ handle = "none"
    /\ held = <<>>
    /\ first = NoResult

StatsFrame ==
    UNCHANGED <<configSpec, jsonConfig, op, result, document, handle, held,
                first, flipPriority>>

\* lines 41-54: the body of the loop for the next network of allStats;
\* sortedStats[0] raises IndexError for a network without nodes
LoopBody ==
    /\ pc = "loop"
    /\ Len(synthesizedStats) < MaxNetworks
    /\ \E network \in Networks :
           /\ networkStats' = ReplaceNone(network)
           /\ IF network = <<>>
              THEN pc' = "raised" /\ UNCHANGED synthesizedStats
              ELSE /\ pc' = "loop"
                   /\ synthesizedStats' =
                          Append(synthesizedStats,
                                 SortedStats(networkStats', flipPriority)[1])
    /\ UNCHANGED rows
    /\ StatsFrame

\* allStats is exhausted
LoopEnd ==
    /\ pc = "loop"
    /\ pc' = "write"
    /\ UNCHANGED <<networkStats, synthesizedStats, rows>>
    /\ StatsFrame

\* lines 56-62
WriteCsv ==
    /\ pc = "write"
    /\ rows' = <<HeaderRow>>
                 \o [i \in 1..Len(synthesizedStats) |->
                        CsvRow(i - 1, synthesizedStats[i])]
    /\ pc' = "done"
    /\ UNCHANGED <<networkStats, synthesizedStats>>
    /\ StatsFrame

NextStats ==
    \/ LoopBody
    \/ LoopEnd
    \/ WriteCsv

SpecStats == InitStats /\ [][NextStats]_vars

(***************************************************************************)
(* Vocabulary of the claims, stated without the operators of the model.    *)
(***************************************************************************)
\* the keys of a mapping
KeysOf(d) == {d.items[i][1] : i \in 1..Len(d.items)}

Items == configSpec.configItems
KeyAt(i) == Items[i].key
Present(i) == HasKey(jsonConfig, KeyAt(i))
IsNested(item) == item.kind = "TypeOrSubconfigConfigItem"

\* the value is of a type the item accepts
AcceptedType(item, value) ==
    IF IsNested(item)
    THEN IsInstance(value, item.type_) \/ value.type = "dict"
    ELSE \E t \in {item.possibleTypes[i] : i \in 1..Len(item.possibleTypes)} :
             IsInstance(value, t)

RECURSIVE DefaultsResolvable(_)
\* every item has a declared default, or uses the defaults of a nested
\* schema whose defaults are resolvable in the same sense
DefaultsResolvable(config) ==
    \A i \in 1..Len(config.configItems) :
        LET item == config.configItems[i]
        IN  \/ item.default.tag = "value"
            \/ /\ IsNested(item)
               /\ item.default.tag = "UseSubDefaults"
               /\ DefaultsResolvable(item.subconfig)

RECURSIVE ResolvedDefaults(_)
\* the mapping of a schema's defaults, for a schema whose defaults resolve
ResolvedDefaults(config) ==
    DictV([i \in 1..Len(config.configItems) |->
              LET item == config.configItems[i]
              IN  <<item.key,
                    IF item.default.tag = "value" THEN item.default.value
                    ELSE ResolvedDefaults(item.subconfig)>>])

\* the item's default can be produced
ItemResolvable(item) ==
    \/ item.default.tag = "value"
    \/ /\ IsNested(item)
       /\ item.default.tag = "UseSubDefaults"
       /\ DefaultsResolvable(item.subconfig)

ItemDefault(item) ==
    IF item.default.tag = "value" THEN item.default.value
    ELSE ResolvedDefaults(item.subconfig)

RECURSIVE Supplies(_, _)
\* the input gives every item whose default cannot be produced a value, and
\* every value given is accepted, an object given to a nested item (and not
\* of its scalar type) being one that supplies the nested schema
Supplies(config, input) ==
    \A i \in 1..Len(config.configItems) :
        LET item == config.configItems[i]
        IN  IF HasKey(input, item.key)
            THEN LET value == Lookup(input, item.key)
                 IN  IF IsNested(item)
                     THEN \/ IsInstance(value, item.type_)
                          \/ /\ value.type = "dict"
                             /\ Supplies(item.subconfig, value)
                     ELSE AcceptedType(item, value)
            ELSE ItemResolvable(item)

\* the key occurs exactly once in the mapping
OccursOnce(d, k) == Cardinality({j \in 1..Len(d.items) : d.items[j][1] = k}) = 1

\* the mapping holds every key the schema declares exactly once and no other
\* key, and an absent key holds the item's default
CompleteMapping(d) ==
    /\ d.type = "dict"
    /\ KeysOf(d) = {KeyAt(i) : i \in 1..Len(Items)}
    /\ \A i \in 1..Len(Items) :
           /\ OccursOnce(d, KeyAt(i))
           /\ ~Present(i) => Lookup(d, KeyAt(i)) = ItemDefault(Items[i])

\* C1 as stated: the input gives every item without a default (NoDefault) a
\* value of an accepted type, and every other value given is of an accepted
\* type
C1_Supplied ==
    \A i \in 1..Len(Items) :
        /\ Items[i].default.tag = "NoDefault" => Present(i)
        /\ Present(i) => AcceptedType(Items[i], Lookup(jsonConfig, KeyAt(i)))

(* C1, as stated: whenever the input supplies every item without a default
   with a value of an accepted type and every other present key is of an
   accepted type, Config.parse succeeds and the mapping holds every declared
   key exactly once.  Refuted: an absent use-sub-defaults item over a nested
   schema with a required key, or an object given to a nested item that
   lacks the nested schema's required key, raises. *)
C1_Original ==
    (op.name = "parse" /\ C1_Supplied)
        => (result.status = "ok" /\ CompleteMapping(result.value))

(* C1, amended: whenever every item whose default cannot be resolved has its
   key present and every present value is accepted, an object given to a
   nested item being accepted when it satisfies the same condition for the
   nested schema, Config.parse succeeds and the returned mapping holds every
   key declared in S exactly once, absent keys holding the item's default. *)
C1_ParseComplete ==
    (op.name = "parse" /\ Supplies(configSpec, jsonConfig))
        => (result.status = "ok" /\ CompleteMapping(result.value))

\* a parse that succeeded with a default filled in and an object parsed
\* against a nested schema
C1_Witness ==
    /\ op.name = "parse"
    /\ Supplies(configSpec, jsonConfig)
    /\ result.status = "ok"
    /\ Len(Items) = MaxItems
    /\ \E i \in 1..Len(Items) : ~Present(i)
    /\ \E i \in 1..Len(Items) :
           /\ IsNested(Items[i]) /\ Present(i)
           /\ Lookup(jsonConfig, KeyAt(i)).type = "dict"
           /\ ~IsInstance(Lookup(jsonConfig, KeyAt(i)), Items[i].type_)

\* item i has no default and the input lacks its key
C2_Missing(i) == Items[i].default.tag = "NoDefault" /\ ~Present(i)

(* C2, as stated: if an item declared with no default has its key absent
   from the input, parse raises ExpectedValueError naming that key, whatever
   the other items and input keys are.  Refuted: the items are parsed in
   order, and the error of the first item that fails is the one raised. *)
C2_Original ==
    op.name = "parse" =>
        \A i \in 1..Len(Items) :
            C2_Missing(i) =>
                (result.status = "ExpectedValueError" /\ result.key = KeyAt(i))

(* C2, amended: if an item declared with no default has its key absent from
   the input, parse raises and returns no mapping; the error is
   ExpectedValueError naming the key when every item declared before it
   parses without error, and the error of the first failing item otherwise. *)
C2_MissingRaises ==
    op.name = "parse" =>
        \A i \in 1..Len(Items) :
            C2_Missing(i) =>
                /\ result.status # "ok"
                /\ result.value = NoneV
                /\ (\A j \in 1..(i - 1) :
                        ConfigItem_parse(Items[j], jsonConfig).status = "ok")
                       => (result.status = "ExpectedValueError"
                           /\ result.key = KeyAt(i))
                /\ (\E j \in 1..(i - 1) :
                        ConfigItem_parse(Items[j], jsonConfig).status # "ok")
                       => result = ConfigItem_parse(
                              Items[CHOOSE j \in 1..(i - 1) :
                                  /\ ConfigItem_parse(Items[j], jsonConfig).status # "ok"
                                  /\ \A k \in 1..(j - 1) :
                                         ConfigItem_parse(Items[k], jsonConfig).status = "ok"],
                              jsonConfig)

\* a nested item with no default is absent, after an item that parsed
C2_Witness ==
    /\ op.name = "parse"
    /\ Len(Items) = MaxItems
    /\ IsNested(Items[MaxItems])
    /\ C2_Missing(MaxItems)
    /\ Present(1)
    /\ result.status = "ExpectedValueError"
    /\ result.key = KeyAt(MaxItems)

RECURSIVE DefaultsWellTyped(_)
\* every declared default is of a type its item accepts unchanged (for a
\* nested item: of its scalar type), through the nested schemas of the items
\* that use sub-defaults
DefaultsWellTyped(config) ==
    \A i \in 1..Len(config.configItems) :
        LET item == config.configItems[i]
        IN  CASE item.default.tag = "value" ->
                     IF IsNested(item)
                     THEN IsInstance(item.default.value, item.type_)
                     ELSE AcceptedType(item, item.default.value)
              [] item.default.tag = "UseSubDefaults" ->
                     IsNested(item) /\ DefaultsWellTyped(item.subconfig)
              [] OTHER -> FALSE

(* C4, as stated: whenever S.getDefault() succeeds, S.parse(S.getDefault())
   succeeds and equals S.getDefault(), also when a declared default is not of
   the item's accepted type.  Refuted: a default that is not of an accepted
   type is returned by getDefault() unchecked and rejected by parse. *)
C4_Original ==
    op.name = "parseDefault" =>
        (result.status = "ok" /\ result.value = ResolvedDefaults(configSpec))

(* C4, amended: whenever S.getDefault() succeeds and every declared default
   is of its item's accepted type (for a TypeOrSubconfig item, of its scalar
   type), through the nested schemas of items that use sub-defaults,
   S.parse(S.getDefault()) succeeds and equals S.getDefault(). *)
C4_DefaultsIdempotent ==
    (op.name = "parseDefault" /\ DefaultsWellTyped(configSpec)) =>
        (result.status = "ok" /\ result.value = ResolvedDefaults(configSpec))

\* defaults with a nested item that uses sub-defaults were parsed again
C4_Witness ==
    /\ op.name = "parseDefault"
    /\ DefaultsWellTyped(configSpec)
    /\ Len(Items) = MaxItems
    /\ \E i \in 1..Len(Items) :
           IsNested(Items[i]) /\ Items[i].default.tag = "UseSubDefaults"
    /\ \E i \in 1..Len(Items) : ~IsNested(Items[i])
    /\ result.status = "ok"

\* the item of the _parse call and the value it was given
C5_Item == Items[op.item]
C5_Value == Lookup(jsonConfig, C5_Item.key)

(* C5: TypeOrSubconfigConfigItem._parse for a present key: a value of the
   scalar type T is returned unchanged; otherwise an object is parsed against
   the nested schema N and what that parse yields is the outcome, the empty
   object yielding exactly N's defaults; any other value raises
   InvalidTypeError with the key, the expected type T and the actual type. *)
C5_TypeOrSubconfigExtraction ==
    (op.name = "_parse" /\ IsNested(C5_Item)) =>
        CASE IsInstance(C5_Value, C5_Item.type_) ->
                 result = Ok(C5_Value)
          [] ~IsInstance(C5_Value, C5_Item.type_) /\ C5_Value.type = "dict" ->
                 /\ result = Config_parse(C5_Item.subconfig, C5_Value)
                 /\ result.status = "ok" =>
                        KeysOf(result.value) =
                            {C5_Item.subconfig.configItems[i].key :
                                 i \in 1..Len(C5_Item.subconfig.configItems)}
                 /\ C5_Value = EmptyDict =>
                        result = Config_getDefault(C5_Item.subconfig)
                 /\ (C5_Value = EmptyDict /\ DefaultsResolvable(C5_Item.subconfig))
                        => result = Ok(ResolvedDefaults(C5_Item.subconfig))
          [] OTHER ->
                 /\ result.status = "InvalidTypeError"
                 /\ result.key = C5_Item.key
                 /\ result.expected = <<C5_Item.type_>>
                 /\ result.actual = C5_Value.type

\* the empty object was given to a nested item and N's defaults came back
C5_Witness ==
    /\ op.name = "_parse"
    /\ IsNested(C5_Item)
    /\ C5_Item.type_ = "str"
    /\ C5_Value = EmptyDict
    /\ result.status = "ok"
    /\ result.value = ResolvedDefaults(C5_Item.subconfig)
    /\ result.value # EmptyDict

RECURSIVE C6_Resolvable(_)
\* C6 as stated: every item has a declared default or is a nested-schema
\* item whose nested schema's defaults are resolvable in the same sense
C6_Resolvable(config) ==
    \A i \in 1..Len(config.configItems) :
        LET item == config.configItems[i]
        IN  \/ item.default.tag = "value"
            \/ IsNested(item) /\ C6_Resolvable(item.subconfig)

(* C6, as stated: getDefault() never raises if every item has a declared
   default or is a nested-schema item whose nested schema's defaults are
   fully resolvable, and raises ExpectedValueError in every other case.
   Refuted: a nested-schema item declared without a default raises although
   its nested schema's defaults resolve. *)
C6_Original ==
    op.name = "getDefault" =>
        /\ C6_Resolvable(configSpec) => result.status = "ok"
        /\ ~C6_Resolvable(configSpec) => result.status = "ExpectedValueError"

(* C6, amended: getDefault() never raises if every item has a declared
   default or is a nested-schema item declared with the use-sub-defaults
   sentinel whose nested schema's defaults are fully resolvable, and raises
   ExpectedValueError in every other case. *)
C6_GetDefaultRaises ==
    op.name = "getDefault" =>
        /\ DefaultsResolvable(configSpec) =>
               (result.status = "ok" /\ result.value = ResolvedDefaults(configSpec))
        /\ ~DefaultsResolvable(configSpec) =>
               (result.status = "ExpectedValueError" /\ result.value = NoneV)

\* getDefault() returned for a schema with an item using sub-defaults
C6_Witness ==
    /\ op.name = "getDefault"
    /\ result.status = "ok"
    /\ Len(Items) = MaxItems
    /\ \E i \in 1..Len(Items) :
           IsNested(Items[i]) /\ Items[i].default.tag = "UseSubDefaults"

\* the nested item i was given an object that was parsed against its schema
C10_NestedParsed(i) ==
    /\ IsNested(Items[i])
    /\ Present(i)
    /\ Lookup(jsonConfig, KeyAt(i)).type = "dict"
    /\ ~IsInstance(Lookup(jsonConfig, KeyAt(i)), Items[i].type_)

(* C10: in parseConfig only the root schema's validator is invoked: once,
   after every item parsed, on the complete parsed mapping, its outcome being
   the outcome of the call (the mapping itself without a validator); it is
   not invoked when parsing raises, and the validator of a nested Config is
   never invoked, the nested mapping being returned as parsed. *)
C10_OnlyRootValidator ==
    op.name = "parseConfig" =>
        LET parsed == Config_parse(configSpec, jsonConfig)
        IN  IF parsed.status # "ok"
            THEN result = parsed /\ result.calls = <<>>
            ELSE /\ CompleteMapping(parsed.value)
                 /\ \A i \in 1..Len(Items) :
                        C10_NestedParsed(i) =>
                            /\ ~HasKey(Lookup(parsed.value, KeyAt(i)), "checked")
                            /\ KeysOf(Lookup(parsed.value, KeyAt(i))) = {"n"}
                 /\ IF configSpec.validator = "None"
                    THEN result = Ok(parsed.value)
                    ELSE /\ result.calls = <<[validator |-> configSpec.validator,
                                              arg |-> parsed.value]>>
                         /\ result.status =
                                ApplyValidator(configSpec.validator, parsed.value).status
                         /\ result.value =
                                ApplyValidator(configSpec.validator, parsed.value).value

\* the root validator transformed a mapping holding a nested mapping whose
\* own validator rejects
C10_Witness ==
    /\ op.name = "parseConfig"
    /\ configSpec.validator = "mark"
    /\ result.status = "ok"
    /\ HasKey(result.value, "checked")
    /\ Len(result.calls) = 1
    /\ \E i \in 1..Len(Items) :
           C10_NestedParsed(i) /\ Items[i].subconfig.validator = "reject"

RECURSIVE HasDuplicate(_)
\* some object of the document, at any level, holds a key twice
HasDuplicate(node) ==
    /\ node.type \in {"dict", "list"}
    /\ \/ /\ node.type = "dict"
          /\ \E i, j \in 1..Len(node.items) :
                 i # j /\ node.items[i][1] = node.items[j][1]
       \/ \E i \in 1..Len(node.items) : HasDuplicate(node.items[i][2])

RECURSIVE OrdinaryDecode(_)
\* json.load without a hook: every object becomes the dict of its pairs
OrdinaryDecode(node) ==
    CASE node.type = "list" ->
             ListV([i \in 1..Len(node.items) |->
                       <<"", OrdinaryDecode(node.items[i][2])>>])
      [] node.type = "dict" ->
             LastWins_from([i \in 1..Len(node.items) |->
                               <<node.items[i][1],
                                 OrdinaryDecode(node.items[i][2])>>],
                           1, DictV(<<>>)).value
      [] OTHER -> node

WellFormed == document \notin {Malformed, Missing}

(* C3: a document in which some object, at any nesting level, holds a key
   twice makes json.load raise ValidationFailedError, before parseConfig
   runs and without a mapping being produced; a document with no repeated
   key in any object decodes to the mapping ordinary decoding gives. *)
C3_DuplicateKeysRejected ==
    (WellFormed /\ pc \notin {"open", "load"}) =>
        IF HasDuplicate(document)
        THEN /\ pc = "raised"
             /\ op.name = "json.load"
             /\ result.status = "ValidationFailedError"
             /\ jsonConfig = NoneV
        ELSE /\ jsonConfig = OrdinaryDecode(document)
             /\ op.name \in {"json.load", "close", "parseConfig"}
             /\ op.name = "json.load" => pc = "close"

\* a key repeated two levels down was rejected by json.load
C3_Witness ==
    /\ pc = "raised"
    /\ op.name = "json.load"
    /\ result.status = "ValidationFailedError"
    /\ WellFormed
    /\ \A i, j \in 1..Len(document.items) :
           i # j => document.items[i][1] # document.items[j][1]
    /\ \E i \in 1..Len(document.items) :
           /\ ~(\E k, l \in 1..Len(document.items[i][2].items) :
                    k # l /\ document.items[i][2].items[k][1]
                               = document.items[i][2].items[l][1])
           /\ HasDuplicate(document.items[i][2])

(* C7: after parseConfigFile has returned or raised, the file handle it
   opened is closed.  The code does not close it when json.load raises. *)
C7_HandleClosed ==
    (pc \in {"returned", "raised"} /\ handle # "none") => handle = "closed"

(* C8: changing a mapping returned by one call, or a value inside it,
   changes neither the schema's declared defaults nor the outcome of a later
   call with the same input.  The code returns self.default itself, so a
   list or dict default changed through the mapping is changed in the
   schema. *)
C8_NoSharedState ==
    [][/\ configSpec' = configSpec
       /\ pc' = "again" => result' = first']_vars

\* the rank of a BiBC value, a missing one below every present one
C9_Rank(bibc) == IF bibc.kind = "number" THEN bibc.v ELSE 0

\* entry x is at least entry y in the order (primary, secondary)
C9_AtLeast(x, y) ==
    LET p(e) == IF flipPriority THEN e.degree ELSE C9_Rank(e.bibc)
        q(e) == IF flipPriority THEN C9_Rank(e.bibc) ELSE e.degree
    IN  p(x) > p(y) \/ (p(x) = p(y) /\ q(x) >= q(y))

(* C9: for every network with nodes, the node selected is a maximum in the
   lexicographic order (BiBC, degree), or (degree, BiBC) with
   --flip-priority, a missing BiBC being below every present one; the loop
   adds its entry after those of the networks before it, and the file holds
   the header and one row per network, in order, a missing BiBC written as
   N/A. *)
C9_TopNode ==
    [][/\ (pc = "loop" /\ pc' = "loop")
           => \E i \in 1..Len(networkStats') :
                  /\ synthesizedStats' = Append(synthesizedStats, networkStats'[i])
                  /\ \A j \in 1..Len(networkStats') :
                         C9_AtLeast(networkStats'[i], networkStats'[j])
       /\ pc' = "done"
           => /\ Len(rows') = Len(synthesizedStats) + 1
              /\ rows'[1] = HeaderRow
              /\ \A i \in 1..Len(synthesizedStats) :
                     /\ rows'[i + 1][1] = NumberCell(i - 1)
                     /\ rows'[i + 1][2] = TextCell(synthesizedStats[i].node)
                     /\ rows'[i + 1][3] = NumberCell(synthesizedStats[i].degree)
                     /\ rows'[i + 1][4] =
                            IF synthesizedStats[i].bibc.kind = "number"
                            THEN NumberCell(synthesizedStats[i].bibc.v)
                            ELSE TextCell("N/A")]_vars

\* with the default priority a node with a BiBC was selected although a node
\* without one has the larger degree, and the file was written
C9_Witness ==
    /\ pc = "done"
    /\ ~flipPriority
    /\ Len(rows) = MaxNetworks + 1
    /\ \E i, j \in 1..Len(networkStats) :
           /\ networkStats[i].bibc = NoBibc
           /\ networkStats[j].bibc.kind = "number"
           /\ networkStats[i].degree > networkStats[j].degree
           /\ synthesizedStats[MaxNetworks] = networkStats[j]
    /\ \E k \in 2..Len(rows) : rows[k][4] = TextCell("N/A")

====
